---- MODULE Spec2Model ----
(***************************************************************************)
(* Model of superagi/tools/code/write_code.py: CodingTool._execute (the    *)
(* response-to-filesystem pipeline) and CodingTool.write_codes_to_file     *)
(* (the persist operation).                                                *)
(*                                                                         *)
(* A Python str is a sequence of one-character strings, so that            *)
(* startswith, split, re.sub and the regular expression of _execute are    *)
(* computed character by character; the backquote, which a TLA+ string     *)
(* cannot hold, is the character Backquote.  An optional value (None or a  *)
(* value) is the empty sequence or a one-element sequence.                 *)
(***************************************************************************)
EXTENDS Integers, Sequences, FiniteSets, TLC

VARIABLES
    pc,          \* position of _execute: start, loop, call, ret, readme, done, raised
    response,    \* result["content"], the text returned by the model
    scanPos,     \* position from which re.finditer looks for the next match
    records,     \* the (sanitized file_name, code) pairs the loop has produced so far
    blocks,      \* the filename+fence blocks the response was written from
    inReadme,    \* TRUE while the call of line 170 (README.md) is running
    result,      \* the value _execute returned
    wpc,         \* position of write_codes_to_file
    argName,     \* code_file_name
    argContent,  \* codes_content
    session,     \* the local variable session: unbound, open, closed
    finalPath,   \* the local variable final_path
    codeFile,    \* the local variable code_file: unbound, open, closed
    resource,    \* the local variable resource (optional)
    exc,         \* the message of the exception being handled
    saveResult,  \* the value write_codes_to_file returned
    rootDir,     \* get_config('RESOURCES_OUTPUT_ROOT_DIR') (optional)
    disk,        \* the file system: file |-> the bytes it holds
    catalog,     \* the committed ResourceEntry rows, in commit order
    uploads,     \* the calls of S3Helper.upload_file, in order
    openSessions,\* number of catalog sessions open
    log          \* the external calls made so far: <<operation, file name, ok>>

vars == <<pc, response, scanPos, records, blocks, inReadme, result, wpc, argName,
          argContent, session, finalPath, codeFile, resource, exc, saveResult,
          rootDir, disk, catalog, uploads, openSessions, log>>

execVars == <<pc, response, scanPos, records, blocks, inReadme, result>>
callVars == <<wpc, argName, argContent, session, finalPath, codeFile, resource,
              exc, saveResult>>
worldVars == <<rootDir, disk, catalog, uploads, openSessions>>

(***************************************************************************)
(* Bounds of the model.                                                    *)
(***************************************************************************)
MaxBlocks == 2       \* filename+fence blocks in a response of the pipeline
MaxParseBlocks == 3  \* filename+fence blocks in a response of the parser
MaxRootLen == 3      \* characters of a configured output root

(***************************************************************************)
(* Strings.                                                                *)
(***************************************************************************)
NL == "\n"
Backquote == "BACKQUOTE"
Fence == <<Backquote, Backquote, Backquote>>
\* The space characters of the pattern class of line 149 and of str.strip
\* that have no escape in a string of this module, each written as the name
\* of its code point: the vertical tab, the separators 1C-1F, the next-line
\* character, the no-break space and the spaces beyond Latin-1.
NamedSpaces ==
    {"U+000B", "U+001C", "U+001D", "U+001E", "U+001F", "U+0085", "U+00A0",
     "U+1680", "U+2000", "U+2001", "U+2002", "U+2003", "U+2004", "U+2005",
     "U+2006", "U+2007", "U+2008", "U+2009", "U+200A", "U+2028", "U+2029",
     "U+202F", "U+205F", "U+3000"}

\* every space character of the pattern class of line 149 and of str.strip
Whitespace == {" ", "\n", "\t", "\r", "\f"} \cup NamedSpaces
ForbiddenChars == {"<", ">", "\"", "|", "?", "*"}

ErrorPrefix == <<"E", "r", "r", "o", "r">>
SaveErrorPrefix ==
    <<"E", "r", "r", "o", "r", " ", "s", "a", "v", "i", "n", "g", " ", "c", "o",
      "d", "e", "s", " ", "t", "o", " ", "f", "i", "l", "e", ":", " ">>
GenerateErrorPrefix ==
    <<"E", "r", "r", "o", "r", " ", "g", "e", "n", "e", "r", "a", "t", "i", "n",
      "g", " ", "c", "o", "d", "e", "s", ":", " ">>
SavedMessage ==
    <<"C", "o", "d", "e", "s", " ", "s", "a", "v", "e", "d", " ", "s", "u", "c",
      "c", "e", "s", "s", "f", "u", "l", "l", "y">>
SuccessMessage ==
    <<"c", "o", "d", "e", "s", " ", "g", "e", "n", "e", "r", "a", "t", "e", "d",
      " ", "a", "n", "d", " ", "s", "a", "v", "e", "d", " ", "s", "u", "c", "c",
      "e", "s", "s", "f", "u", "l", "l", "y">>
ReadmeName == <<"R", "E", "A", "D", "M", "E", ".", "m", "d">>

\* str.startswith
StartsWith(s, p) == Len(s) >= Len(p) /\ SubSeq(s, 1, Len(p)) = p

\* s[i:].startswith(p), i counted from 1
HasAt(s, i, p) == i + Len(p) - 1 <= Len(s) /\ SubSeq(s, i, i + Len(p) - 1) = p

\* str.find: the first position >= i where p occurs in s, 0 when there is none
RECURSIVE FindFrom(_, _, _)
FindFrom(s, i, p) ==
    IF i > Len(s) THEN 0
    ELSE IF HasAt(s, i, p) THEN i
    ELSE FindFrom(s, i + 1, p)

\* str.strip
Strip(s) ==
    LET keep == {k \in 1..Len(s) : s[k] \notin Whitespace}
    IN  IF keep = {} THEN <<>>
        ELSE SubSeq(s, CHOOSE k \in keep : \A j \in keep : k <= j,
                       CHOOSE k \in keep : \A j \in keep : k >= j)

\* a variant of lines 167-169 that takes the README from a fenced response only
SplitFirstFenced(s) ==
    LET k == FindFrom(s, 1, Fence)
    IN  IF k = 0 THEN <<>> ELSE SubSeq(s, 1, k - 1)

\* lines 167-169: the first element of the response split at the fence
SplitFirst(s) ==
    LET k == FindFrom(s, 1, Fence)
    IN  IF k = 0 THEN s ELSE SubSeq(s, 1, k - 1)

(***************************************************************************)
(* The regular expression of line 149, matched under re.DOTALL: a lazy     *)
(* run of non-space characters (group 1), a newline, a fence, a run of     *)
(* non-space characters, a newline, a lazy run of one or more characters   *)
(* of any kind (group 2), a fence.                                         *)
(***************************************************************************)
\* the position after the run of \S characters that starts at i
RECURSIVE RunEnd(_, _)
RunEnd(s, i) ==
    IF i > Len(s) THEN Len(s) + 1
    ELSE IF s[i] \in Whitespace THEN i
    ELSE RunEnd(s, i + 1)

\* The match that starts exactly at position i, if there is one.  Both runs
\* of non-space characters are followed by a newline, which is a space
\* character, so each of them takes the whole run; group 2 takes at least
\* one character and stops at the first fence after it.
MatchAt(s, i) ==
    LET nameEnd == RunEnd(s, i)
        tagStart == nameEnd + 1 + Len(Fence)
        tagEnd == RunEnd(s, tagStart)
        codeStart == tagEnd + 1
        close == FindFrom(s, codeStart + 1, Fence)
    IN  IF /\ nameEnd > i
           /\ HasAt(s, nameEnd, <<NL>>)
           /\ HasAt(s, nameEnd + 1, Fence)
           /\ tagEnd > tagStart
           /\ HasAt(s, tagEnd, <<NL>>)
           /\ close > 0
        THEN <<[group1 |-> SubSeq(s, i, nameEnd - 1),
                group2 |-> SubSeq(s, codeStart, close - 1),
                end |-> close + Len(Fence)]>>
        ELSE <<>>

\* next(re.finditer(...)): the leftmost match starting at or after pos
RECURSIVE FindMatch(_, _)
FindMatch(s, pos) ==
    IF pos > Len(s) THEN <<>>
    ELSE IF MatchAt(s, pos) # <<>> THEN MatchAt(s, pos)
    ELSE FindMatch(s, pos + 1)

\* re.sub of line 155: every forbidden character is removed from group 1
Sanitize(name) == SelectSeq(name, LAMBDA c : c \notin ForbiddenChars)

\* lines 155-158: the record of one match
RecordOf(m) == [file_name |-> Sanitize(m.group1), code |-> m.group2]

\* a variant of line 161 that lets every record through
IsNamedAlways(file_name) == TRUE

\* line 161: if file_name.strip()
IsNamed(file_name) == Strip(file_name) # <<>>

(***************************************************************************)
(* The responses of the model: a preamble followed by filename+fence       *)
(* blocks.  A block is written as the prompt of lines 128-131 asks, or     *)
(* "tight": with the closing fence directly after its content, a form the  *)
(* pattern of line 149 recognizes as well.                                 *)
(***************************************************************************)
\* lines 128-131 with content for [CODE]: [FILENAME] newline, fence [LANG]
\* newline, [CODE] newline, fence, newline
RenderBlock(b) ==
    b.name \o <<NL>> \o Fence \o b.tag \o <<NL>> \o b.content \o <<NL>>
        \o Fence \o <<NL>>

\* a block that leaves out the newline between [CODE] and the closing fence
RenderTight(b) ==
    b.name \o <<NL>> \o Fence \o b.tag \o <<NL>> \o b.content \o Fence \o <<NL>>

\* the text of a block between its opening fence line and its closing fence
Between(b) == IF b.tight THEN b.content ELSE b.content \o <<NL>>

RECURSIVE RenderBlocks(_)
RenderBlocks(bs) ==
    IF bs = <<>> THEN <<>>
    ELSE (IF Head(bs).tight THEN RenderTight(Head(bs)) ELSE RenderBlock(Head(bs)))
             \o RenderBlocks(Tail(bs))

Render(pre, bs) == pre \o RenderBlocks(bs)

SeqsUpTo(S, n) == UNION {[1..k -> S] : k \in 0..n}

Preambles == {<<>>, <<"t", NL>>, <<"t", "\f">>}
PipelineNames == {<<"a">>, <<"b">>, <<"?">>}
PipelineBlocks == [name : PipelineNames, tag : {<<"p">>}, content : {<<"x">>},
                   tight : {FALSE}]

\* the response "Intro text\nmain.py\n```python\nprint(1)\n```\n"
ExamplePre == <<"I", "n", "t", "r", "o", " ", "t", "e", "x", "t", "\n">>
ExampleBlock == [name |-> <<"m", "a", "i", "n", ".", "p", "y">>,
                 tag |-> <<"p", "y", "t", "h", "o", "n">>,
                 content |-> <<"p", "r", "i", "n", "t", "(", "1", ")">>,
                 tight |-> FALSE]

\* a response without any fence, and a response with a block named README.md
PlainText == <<"a", NL, "p", " ", "x">>
ReadmeBlock == [name |-> ReadmeName, tag |-> <<"p">>, content |-> <<"x">>,
               tight |-> FALSE]

\* two blocks whose names, a and ./a, denote the same file; the second
\* holds the letter e with an acute accent, two bytes in the file
SameFileBlocks ==
    <<[name |-> <<"a">>, tag |-> <<"p">>, content |-> <<"x">>, tight |-> FALSE],
      [name |-> <<".", "/", "a">>, tag |-> <<"p">>, content |-> <<"U+00E9">>,
       tight |-> FALSE]>>

PipelineInputs ==
    [pre : {<<"t", NL>>}, blocks : SeqsUpTo(PipelineBlocks, MaxBlocks)]
    \cup {[pre |-> ExamplePre, blocks |-> <<ExampleBlock>>],
          [pre |-> PlainText, blocks |-> <<>>],
          [pre |-> <<"t", NL>>, blocks |-> <<ReadmeBlock>>],
          [pre |-> <<"t", NL>>, blocks |-> SameFileBlocks]}

ParserNames == {<<"a">>, <<"b", "?">>, <<"?">>}
ParserBlocks == [name : ParserNames, tag : {<<"p">>},
                 content : {<<>>, <<"x">>}, tight : BOOLEAN]
ParserInputs == [pre : Preambles, blocks : SeqsUpTo(ParserBlocks, MaxParseBlocks)]

(***************************************************************************)
(* The environment of the tool.                                            *)
(***************************************************************************)
\* os.getcwd()
Cwd == <<"/", "w">>

\* the values of RESOURCES_OUTPUT_ROOT_DIR: absent, absolute, relative
RootDirs == {<<>>, << <<"/", "o">> >>, << <<"o", "/">> >>}

\* the messages of the exceptions the external calls raise
Causes == [model |-> <<"l", "l", "m">>, connect |-> <<"d", "b">>,
           resolve |-> <<"c", "w", "d">>, open_w |-> <<"d", "i", "r">>,
           write |-> <<"f", "u", "l", "l">>, open_r |-> <<"g", "o", "n", "e">>,
           register |-> <<"r", "e", "g">>, commit |-> <<"t", "x">>,
           flush |-> <<"f", "l", "u", "s", "h">>,
           s3helper |-> <<"s", "3", "c">>, upload |-> <<"s", "3">>]

\* the message of the UnboundLocalError raised by line 93 when line 61-63
\* failed before session was assigned
UnboundMessage == <<"s", "e", "s", "s", "i", "o", "n", " ", "u", "n", "b", "o", "u", "n", "d">>

\* what ResourceHelper.make_written_file_resource can return for a written
\* file: no entry, a local entry at the path written, or a remote entry
\* with a path of its own
RemotePath(name) == <<"o", "u", "t", "/">> \o name
Registrations(name, path) ==
    {<<>>,
     <<[file_name |-> name, storage_type |-> "FILE", path |-> path]>>,
     <<[file_name |-> name, storage_type |-> "S3", path |-> RemotePath(name)]>>}

(***************************************************************************)
(* write_codes_to_file, lines 60-94.                                       *)
(***************************************************************************)
\* lines 65-72
ResolvePath(root, name) ==
    IF root # <<>>
    THEN LET r1 == IF StartsWith(root[1], <<"/">>) THEN root[1]
                   ELSE Cwd \o <<"/">> \o root[1]
             r2 == IF Len(r1) > 0 /\ r1[Len(r1)] = "/" THEN r1 ELSE r1 \o <<"/">>
         IN  r2 \o name
    ELSE Cwd \o <<"/">> \o name

\* a variant of line 94 that returns the bare message of the exception
SaveErrorBare(e) == e

\* line 94
SaveError(e) == SaveErrorPrefix \o e

\* line 177
GenerateError(e) == GenerateErrorPrefix \o e

\* a variant of lines 175-177 that lets the exception leave _execute
CaughtReraised(e) == [pc |-> "raised", result |-> <<>>]

\* lines 175-177: an exception raised inside the try of line 107 becomes
\* the returned message
Caught(e) == [pc |-> "done", result |-> GenerateError(e)]

\* a variant of line 85 that uploads whatever the storage type is
NeedsUploadAlways(res) == TRUE

\* line 85
NeedsUpload(res) == res.storage_type = "S3"

\* line 87: the arguments of upload_file
UploadCall(res, handle) == [path |-> res.path, handle |-> handle]

\* a variant of line 93 that leaves the session as it is
HandlerCloseSkipped(sess) == sess

\* line 93: session.close() in the handler
HandlerClose(sess) == "closed"

\* the segments of a path: the texts between its separators
RECURSIVE SegmentsFrom(_, _, _)
SegmentsFrom(p, i, seg) ==
    IF i > Len(p) THEN <<seg>>
    ELSE IF p[i] = "/" THEN <<seg>> \o SegmentsFrom(p, i + 1, <<>>)
    ELSE SegmentsFrom(p, i + 1, Append(seg, p[i]))

Segments(p) == SegmentsFrom(p, 1, <<>>)

\* the directories and file an absolute path denotes to open() of lines 74
\* and 77: empty and "." segments vanish, ".." leaves the directory reached
\* so far (no directory of the model is a symbolic link)
RECURSIVE Walk(_, _)
Walk(segs, at) ==
    IF segs = <<>> THEN at
    ELSE IF Head(segs) \in {<<>>, <<".">>} THEN Walk(Tail(segs), at)
    ELSE IF Head(segs) = <<".", ".">>
         THEN Walk(Tail(segs), IF at = <<>> THEN at ELSE SubSeq(at, 1, Len(at) - 1))
    ELSE Walk(Tail(segs), Append(at, Head(segs)))

Location(p) == Walk(Segments(p), <<>>)

\* the file a path denotes, written as the path without detours
RECURSIVE JoinPath(_)
JoinPath(segs) ==
    IF segs = <<>> THEN <<>> ELSE <<"/">> \o Head(segs) \o JoinPath(Tail(segs))

FileOf(path) == JoinPath(Location(path))

\* the file system after open(final_path, mode="w"): the file the path
\* denotes is created or truncated
Truncated(d, path) ==
    [q \in DOMAIN d \cup {FileOf(path)} |-> IF q = FileOf(path) THEN <<>> ELSE d[q]]

\* the file system after code_file.write and the close left the bytes
\* content in the file
Written(d, path, content) ==
    [q \in DOMAIN d \cup {FileOf(path)} |->
        IF q = FileOf(path) THEN content ELSE d[q]]

\* The bytes of a character in UTF-8, the encoding open() of line 74 writes
\* text in; a byte that is not a character of its own is named by its value.
Utf8(c) ==
    CASE c = "U+0085" -> <<"0xC2", "0x85">>
      [] c = "U+00A0" -> <<"0xC2", "0xA0">>
      [] c = "U+00E9" -> <<"0xC3", "0xA9">>
      [] c = "U+1680" -> <<"0xE1", "0x9A", "0x80">>
      [] c = "U+2000" -> <<"0xE2", "0x80", "0x80">>
      [] c = "U+2001" -> <<"0xE2", "0x80", "0x81">>
      [] c = "U+2002" -> <<"0xE2", "0x80", "0x82">>
      [] c = "U+2003" -> <<"0xE2", "0x80", "0x83">>
      [] c = "U+2004" -> <<"0xE2", "0x80", "0x84">>
      [] c = "U+2005" -> <<"0xE2", "0x80", "0x85">>
      [] c = "U+2006" -> <<"0xE2", "0x80", "0x86">>
      [] c = "U+2007" -> <<"0xE2", "0x80", "0x87">>
      [] c = "U+2008" -> <<"0xE2", "0x80", "0x88">>
      [] c = "U+2009" -> <<"0xE2", "0x80", "0x89">>
      [] c = "U+200A" -> <<"0xE2", "0x80", "0x8A">>
      [] c = "U+2028" -> <<"0xE2", "0x80", "0xA8">>
      [] c = "U+2029" -> <<"0xE2", "0x80", "0xA9">>
      [] c = "U+202F" -> <<"0xE2", "0x80", "0xAF">>
      [] c = "U+205F" -> <<"0xE2", "0x81", "0x9F">>
      [] c = "U+3000" -> <<"0xE3", "0x80", "0x80">>
      [] OTHER -> <<c>>

\* the bytes code_file.write puts into the file for a text
RECURSIVE Encode(_)
Encode(text) ==
    IF text = <<>> THEN <<>> ELSE Utf8(Head(text)) \o Encode(Tail(text))

\* what a write that fails can leave in the file: any number of the bytes
\* of the content from the start, none and all of them included
Prefixes(content) ==
    {SubSeq(Encode(content), 1, k) : k \in 0..Len(Encode(content))}

Logged(op, ok) == Append(log, <<op, argName, ok>>)

\* an exception raised inside the try of line 60 by the call op
Raise(op) ==
    /\ exc' = Causes[op]
    /\ wpc' = "except"

\* lines 61-63: connect_db, sessionmaker, Session()
Connect ==
    /\ pc = "call" /\ wpc = "connect"
    /\ \E ok \in BOOLEAN :
        /\ log' = Logged("connect", ok)
        /\ IF ok
           THEN /\ session' = "open"
                /\ openSessions' = openSessions + 1
                /\ wpc' = "resolve"
                /\ exc' = exc
           ELSE /\ Raise("connect")
                /\ UNCHANGED <<session, openSessions>>
    /\ UNCHANGED <<execVars, argName, argContent, finalPath, codeFile, resource,
                   saveResult, rootDir, disk, catalog, uploads>>

\* lines 65-72: get_config, os.getcwd and the concatenations
Resolve ==
    /\ pc = "call" /\ wpc = "resolve"
    /\ \E ok \in BOOLEAN :
        /\ log' = Logged("resolve", ok)
        /\ IF ok
           THEN /\ finalPath' = ResolvePath(rootDir, argName)
                /\ wpc' = "open_w"
                /\ exc' = exc
           ELSE /\ Raise("resolve")
                /\ finalPath' = argName
    /\ UNCHANGED <<execVars, argName, argContent, session, codeFile, resource,
                   saveResult, worldVars>>

\* line 74: open(final_path, mode="w")
OpenWrite ==
    /\ pc = "call" /\ wpc = "open_w"
    /\ \E ok \in BOOLEAN :
        /\ log' = Logged("open_w", ok)
        /\ IF ok
           THEN /\ disk' = Truncated(disk, finalPath)
                /\ codeFile' = "open"
                /\ wpc' = "write"
                /\ exc' = exc
           ELSE /\ Raise("open_w")
                /\ UNCHANGED <<disk, codeFile>>
    /\ UNCHANGED <<execVars, argName, argContent, session, finalPath, resource,
                   saveResult, rootDir, catalog, uploads, openSessions>>

\* a variant of line 75 that swallows the failure of the write and goes on
WriteContentSwallowed ==
    /\ pc = "call" /\ wpc = "write"
    /\ \E ok \in BOOLEAN :
        /\ log' = Logged("write", ok)
        /\ codeFile' = "closed"
        /\ wpc' = "open_r"
        /\ exc' = exc
        /\ disk' = IF ok THEN Written(disk, finalPath, Encode(argContent)) ELSE disk
    /\ UNCHANGED <<execVars, argName, argContent, session, finalPath, resource,
                   saveResult, rootDir, catalog, uploads, openSessions>>

\* line 75: code_file.write(codes_content), then the with block closes the file
WriteContent ==
    /\ pc = "call" /\ wpc = "write"
    /\ \E ok \in BOOLEAN :
        /\ log' = Logged("write", ok)
        /\ codeFile' = "closed"
        /\ IF ok
           THEN /\ disk' = Written(disk, finalPath, Encode(argContent))
                /\ wpc' = "open_r"
                /\ exc' = exc
           ELSE /\ Raise("write")
                /\ \E part \in Prefixes(argContent) :
                       disk' = Written(disk, finalPath, part)
    /\ UNCHANGED <<execVars, argName, argContent, session, finalPath, resource,
                   saveResult, rootDir, catalog, uploads, openSessions>>

\* a variant of line 77 that opens the file for writing a second time
OpenReadAsWrite ==
    /\ pc = "call" /\ wpc = "open_r"
    /\ \E ok \in BOOLEAN :
        /\ log' = Logged("open_w", ok)
        /\ IF ok
           THEN /\ codeFile' = "open"
                /\ disk' = Truncated(disk, finalPath)
                /\ wpc' = "register"
                /\ exc' = exc
           ELSE /\ Raise("open_r")
                /\ UNCHANGED <<codeFile, disk>>
    /\ UNCHANGED <<execVars, argName, argContent, session, finalPath, resource,
                   saveResult, rootDir, catalog, uploads, openSessions>>

\* line 77: open(final_path, 'r')
OpenRead ==
    /\ pc = "call" /\ wpc = "open_r"
    /\ \E ok \in BOOLEAN :
        /\ log' = Logged("open_r", ok)
        /\ IF ok
           THEN /\ codeFile' = "open"
                /\ wpc' = "register"
                /\ exc' = exc
           ELSE /\ Raise("open_r")
                /\ codeFile' = codeFile
    /\ UNCHANGED <<execVars, argName, argContent, session, finalPath, resource,
                   saveResult, worldVars>>

\* a variant of line 81 that treats an absent entry as a failure
AfterRegisterStrict(res) == IF res # <<>> THEN "commit" ELSE "except"

\* line 81: if resource is not None
AfterRegister(res) == IF res # <<>> THEN "commit" ELSE "close"

\* lines 78-81: make_written_file_resource inside the with block, which
\* closes code_file when it is left, and the test of line 81
Register ==
    /\ pc = "call" /\ wpc = "register"
    /\ codeFile' = "closed"
    /\ \/ /\ log' = Logged("register", FALSE)
          /\ Raise("register")
          /\ resource' = resource
       \/ \E res \in Registrations(argName, finalPath) :
            /\ log' = Logged("register", TRUE)
            /\ resource' = res
            /\ wpc' = AfterRegister(res)
            /\ exc' = exc
    /\ UNCHANGED <<execVars, argName, argContent, session, finalPath,
                   saveResult, worldVars>>

\* lines 82-85: session.add and session.commit, which raise and leave the
\* catalog as it was, or succeed; then session.flush and the read of
\* resource.storage_type, which go back to the database and can raise after
\* the entry was committed; then the test of line 85
Commit ==
    /\ pc = "call" /\ wpc = "commit"
    /\ \/ /\ log' = Logged("commit", FALSE)
          /\ Raise("commit")
          /\ catalog' = catalog
       \/ /\ log' = Append(Logged("commit", TRUE), <<"flush", argName, FALSE>>)
          /\ Raise("flush")
          /\ catalog' = Append(catalog, resource[1])
       \/ /\ log' = Logged("commit", TRUE)
          /\ catalog' = Append(catalog, resource[1])
          /\ wpc' = IF NeedsUpload(resource[1]) THEN "upload" ELSE "close"
          /\ exc' = exc
    /\ UNCHANGED <<execVars, argName, argContent, session, finalPath, codeFile,
                   resource, saveResult, rootDir, disk, uploads, openSessions>>

\* lines 86-87: S3Helper().upload_file(code_file, path=resource.path).  The
\* constructor can raise, and then upload_file is not called; otherwise
\* upload_file is called once and returns or raises.
Upload ==
    /\ pc = "call" /\ wpc = "upload"
    /\ \/ /\ log' = Logged("s3helper", FALSE)
          /\ Raise("s3helper")
          /\ uploads' = uploads
       \/ /\ uploads' = Append(uploads, UploadCall(resource[1], codeFile))
          /\ \E ok \in BOOLEAN :
              /\ log' = Logged("upload", ok)
              /\ IF ok
                 THEN wpc' = "close" /\ exc' = exc
                 ELSE Raise("upload")
    /\ UNCHANGED <<execVars, argName, argContent, session, finalPath, codeFile,
                   resource, saveResult, rootDir, disk, catalog, openSessions>>

\* lines 89-91: log, session.close(), return "Codes saved successfully"
CloseReturn ==
    /\ pc = "call" /\ wpc = "close"
    /\ session' = "closed"
    /\ openSessions' = openSessions - 1
    /\ saveResult' = SavedMessage
    /\ wpc' = "idle"
    /\ pc' = "ret"
    /\ log' = Logged("return", ~StartsWith(saveResult', ErrorPrefix))
    /\ UNCHANGED <<response, scanPos, records, blocks, inReadme, result, argName,
                   argContent, finalPath, codeFile, resource, exc, rootDir, disk,
                   catalog, uploads>>

\* a variant of lines 92-94 that compensates: the handler rolls the catalog
\* back and deletes the files written so far
ExceptHandlerCompensating ==
    /\ pc = "call" /\ wpc = "except"
    /\ wpc' = "idle"
    /\ session' = "closed"
    /\ openSessions' = 0
    /\ saveResult' = SaveError(exc)
    /\ pc' = "ret"
    /\ log' = Logged("return", FALSE)
    /\ disk' = <<>>
    /\ catalog' = <<>>
    /\ UNCHANGED <<response, scanPos, records, blocks, inReadme, result, argName,
                   argContent, finalPath, codeFile, resource, exc, rootDir, uploads>>

\* lines 92-94: session.close() and return of the error message; when
\* session was never assigned, line 93 raises UnboundLocalError, which
\* leaves write_codes_to_file and is caught by line 175 of _execute
ExceptHandler ==
    /\ pc = "call" /\ wpc = "except"
    /\ wpc' = "idle"
    /\ IF session = "unbound"
       THEN /\ pc' = Caught(UnboundMessage).pc
            /\ result' = Caught(UnboundMessage).result
            /\ log' = Logged("escape", FALSE)
            /\ UNCHANGED <<session, openSessions, saveResult>>
       ELSE /\ session' = HandlerClose(session)
            /\ openSessions' = IF session' = "closed" THEN openSessions - 1
                               ELSE openSessions
            /\ saveResult' = SaveError(exc)
            /\ pc' = "ret"
            /\ log' = Logged("return", ~StartsWith(saveResult', ErrorPrefix))
            /\ result' = result
    /\ UNCHANGED <<response, scanPos, records, blocks, inReadme, argName,
                   argContent, finalPath, codeFile, resource, exc, rootDir, disk,
                   catalog, uploads>>

(***************************************************************************)
(* _execute, lines 107-177.                                                *)
(***************************************************************************)
\* a variant of lines 163 and 171 that looks for the prefix of line 177
SaveFailedOther(r) == StartsWith(r, GenerateErrorPrefix)

\* lines 163 and 171: save_result.startswith("Error")
SaveFailed(r) == StartsWith(r, ErrorPrefix)

\* the entry into write_codes_to_file(content, name)
Call(name, content) ==
    /\ pc' = "call"
    /\ wpc' = "connect"
    /\ argName' = name
    /\ argContent' = content
    /\ session' = "unbound"
    /\ finalPath' = <<>>
    /\ codeFile' = "unbound"
    /\ resource' = <<>>
    /\ exc' = <<>>
    /\ saveResult' = <<>>
    /\ log' = Append(log, <<"call", name, TRUE>>)

\* lines 142-150: the prompt, llm.chat_completion and re.finditer
ChatCompletion ==
    /\ pc = "start"
    /\ \/ \E in \in PipelineInputs :
            /\ blocks' = in.blocks
            /\ response' = Render(in.pre, in.blocks)
            /\ pc' = "loop"
            /\ result' = result
       \/ /\ pc' = Caught(Causes.model).pc
          /\ result' = Caught(Causes.model).result
          /\ UNCHANGED <<blocks, response>>
    /\ UNCHANGED <<scanPos, records, inReadme, callVars, worldVars, log>>

\* lines 153-162: the next match of the iterator, if any, its file name and
\* code, and the call of write_codes_to_file when the name is not empty
NextMatch ==
    /\ pc = "loop"
    /\ LET m == FindMatch(response, scanPos)
       IN  IF m = <<>>
           THEN /\ pc' = "readme"
                /\ UNCHANGED <<scanPos, records, callVars, log>>
           ELSE /\ scanPos' = m[1].end
                /\ records' = Append(records, RecordOf(m[1]))
                /\ IF IsNamed(RecordOf(m[1]).file_name)
                   THEN Call(RecordOf(m[1]).file_name, RecordOf(m[1]).code)
                   ELSE UNCHANGED <<pc, callVars, log>>
    /\ UNCHANGED <<response, blocks, inReadme, result, worldVars>>

\* lines 167-170: the text before the first fence is saved as README.md
\* (split never returns an empty list)
ReadmeCall ==
    /\ pc = "readme"
    /\ inReadme' = TRUE
    /\ Call(ReadmeName, SplitFirst(response))
    /\ UNCHANGED <<response, scanPos, records, blocks, result, worldVars>>

\* lines 163-164 and 171-174: the test of the returned message
AfterSave ==
    /\ pc = "ret"
    /\ IF SaveFailed(saveResult)
       THEN pc' = "done" /\ result' = saveResult
       ELSE IF inReadme
            THEN pc' = "done" /\ result' = SuccessMessage
            ELSE pc' = "loop" /\ result' = result
    /\ UNCHANGED <<response, scanPos, records, blocks, inReadme, callVars,
                   worldVars, log>>

(***************************************************************************)
(* The pipeline: one run of _execute on a freshly constructed tool.        *)
(***************************************************************************)
Init ==
    /\ pc = "start"
    /\ response = <<>>
    /\ scanPos = 1
    /\ records = <<>>
    /\ blocks = <<>>
    /\ inReadme = FALSE
    /\ result = <<>>
    /\ wpc = "idle"
    /\ argName = <<>>
    /\ argContent = <<>>
    /\ session = "unbound"
    /\ finalPath = <<>>
    /\ codeFile = "unbound"
    /\ resource = <<>>
    /\ exc = <<>>
    /\ saveResult = <<>>
    /\ rootDir \in RootDirs
    /\ disk = <<>>
    /\ catalog = <<>>
    /\ uploads = <<>>
    /\ openSessions = 0
    /\ log = <<>>

Next ==
    \/ ChatCompletion
    \/ NextMatch
    \/ ReadmeCall
    \/ AfterSave
    \/ Connect
    \/ Resolve
    \/ OpenWrite
    \/ WriteContent
    \/ OpenRead
    \/ Register
    \/ Commit
    \/ Upload
    \/ CloseReturn
    \/ ExceptHandler

Spec == Init /\ [][Next]_vars

(***************************************************************************)
(* The parser alone: lines 149-158 applied to a response written from      *)
(* filename+fence blocks.                                                  *)
(***************************************************************************)
ParseInit ==
    /\ \E in \in ParserInputs :
        /\ blocks = in.blocks
        /\ response = Render(in.pre, in.blocks)
    /\ pc = "parse"
    /\ scanPos = 1
    /\ records = <<>>
    /\ inReadme = FALSE
    /\ result = <<>>
    /\ wpc = "idle"
    /\ argName = <<>>
    /\ argContent = <<>>
    /\ session = "unbound"
    /\ finalPath = <<>>
    /\ codeFile = "unbound"
    /\ resource = <<>>
    /\ exc = <<>>
    /\ saveResult = <<>>
    /\ rootDir = <<>>
    /\ disk = <<>>
    /\ catalog = <<>>
    /\ uploads = <<>>
    /\ openSessions = 0
    /\ log = <<>>

\* lines 153-158: one iteration of the loop, up to the record
ParseMatch ==
    /\ pc = "parse"
    /\ FindMatch(response, scanPos) # <<>>
    /\ scanPos' = FindMatch(response, scanPos)[1].end
    /\ records' = Append(records, RecordOf(FindMatch(response, scanPos)[1]))
    /\ UNCHANGED <<pc, response, blocks, inReadme, result, callVars, worldVars, log>>

\* line 153: the iterator is exhausted
ParseEnd ==
    /\ pc = "parse"
    /\ FindMatch(response, scanPos) = <<>>
    /\ pc' = "parsed"
    /\ UNCHANGED <<response, scanPos, records, blocks, inReadme, result, callVars,
                   worldVars, log>>

ParseNext == ParseMatch \/ ParseEnd

ParseSpec == ParseInit /\ [][ParseNext]_vars

(***************************************************************************)
(* Observations on a run, used by the properties below.                    *)
(***************************************************************************)
EventsOf(op) == SelectSeq(log, LAMBDA e : e[1] = op)

\* how many elements of a sequence pass a test
CountIn(seq, Test(_)) == Len(SelectSeq(seq, Test))

\* the file names write_codes_to_file was called with, in call order
CallNames == [i \in 1..Len(EventsOf("call")) |-> EventsOf("call")[i][2]]

\* the file names whose local write (lines 74-75) succeeded in this run
WrittenNames == {log[i][2] : i \in {j \in 1..Len(log) : log[j][1] = "write" /\ log[j][3]}}

\* the file names that have a committed ResourceEntry
EntryNames == {catalog[i].file_name : i \in 1..Len(catalog)}

IsPrefix(s, t) == Len(s) <= Len(t) /\ SubSeq(t, 1, Len(s)) = s

\* every record the loop of line 153 yields on a response, from position pos
RECURSIVE AllRecords(_, _)
AllRecords(s, pos) ==
    LET m == FindMatch(s, pos)
    IN  IF m = <<>> THEN <<>>
        ELSE <<RecordOf(m[1])>> \o AllRecords(s, m[1].end)

\* the position in the log of the latest call of write_codes_to_file, 0 if none
LastCall ==
    LET cs == {i \in 1..Len(log) : log[i][1] = "call"}
    IN  IF cs = {} THEN 0 ELSE CHOOSE i \in cs : \A j \in cs : i >= j

\* the external calls of the persists that came before the latest one
EarlierLog == IF LastCall = 0 THEN <<>> ELSE SubSeq(log, 1, LastCall - 1)
EarlierWritten ==
    {EarlierLog[i][2] : i \in {j \in 1..Len(EarlierLog) :
                                  EarlierLog[j][1] = "write" /\ EarlierLog[j][3]}}
EarlierCommitted ==
    SelectSeq(EarlierLog, LAMBDA e : e[1] = "commit" /\ e[3])

\* the file a file name is written to
PathOf(name) == FileOf(ResolvePath(rootDir, name))

\* the code of the latest record written to the file of the given name
LastCode(n) ==
    LET is == {i \in 1..Len(records) :
                  IsNamed(records[i].file_name) /\ PathOf(records[i].file_name) = PathOf(n)}
    IN  records[CHOOSE i \in is : \A j \in is : i >= j].code

(***************************************************************************)
(* Properties.                                                             *)
(***************************************************************************)

\* C1: once a call of write_codes_to_file has returned a message that starts
\* with "Error", that return is the last thing the run did (no later call,
\* write, registration, commit or upload), and _execute returns exactly
\* that message.
C1_AbortOnFirstError ==
    \A i \in 1..Len(log) :
        (log[i][1] = "return" /\ ~log[i][3]) =>
            /\ i = Len(log)
            /\ pc \in {"ret", "done"}
            /\ StartsWith(saveResult, ErrorPrefix)
            /\ pc = "done" => result = saveResult

\* C1 witness: the commit of the first of two file records failed and
\* _execute returned that error.
C1_Witness ==
    /\ pc = "done"
    /\ Len(blocks) = 2
    /\ Len(EventsOf("call")) = 1
    /\ \E i \in 1..Len(log) : log[i][1] = "commit" /\ ~log[i][3]
    /\ result = SaveError(Causes.commit)

\* C2: _execute never raises; what it returns is the success message or a
\* message that starts with "Error", and it is the success message only when
\* no external call failed, every persist returned, and README.md was the
\* last one persisted.
C2_NeverRaises ==
    /\ pc # "raised"
    /\ pc = "done" =>
        /\ result = SuccessMessage \/ StartsWith(result, ErrorPrefix)
        /\ result = SuccessMessage =>
            /\ \A i \in 1..Len(log) : log[i][3]
            /\ Len(EventsOf("call")) = Len(EventsOf("return"))
            /\ CallNames # <<>>
            /\ CallNames[Len(CallNames)] = ReadmeName

\* C2 witness: the catalog session of the second persist could not be
\* opened, and _execute returned an error message.
C2_Witness ==
    /\ pc = "done"
    /\ Len(EventsOf("call")) = 2
    /\ \E i \in 1..Len(log) : log[i][1] = "connect" /\ ~log[i][3]
    /\ StartsWith(result, ErrorPrefix)

\* C3: every call of write_codes_to_file that is over has returned
\* "Codes saved successfully" or a message prefixed "Error saving codes to
\* file: "; no exception left it.
C3_PersistReturnsMessage ==
    (wpc = "idle" /\ LastCall # 0) =>
        /\ saveResult = SavedMessage \/ StartsWith(saveResult, SaveErrorPrefix)
        /\ \A i \in 1..Len(log) : log[i][1] # "escape"

\* C4 as stated: between persists and at the end, a committed entry exists
\* for a file name if and only if that file was written by this run.
C4_EntryIffWritten ==
    wpc = "idle" => EntryNames = WrittenNames

\* C4 as amended: a committed entry exists for a file name only if that file
\* was written by this run and is on disk (a written file may have no entry).
C4_EntryOnlyIfWritten ==
    \A i \in 1..Len(catalog) :
        /\ catalog[i].file_name \in WrittenNames
        /\ PathOf(catalog[i].file_name) \in DOMAIN disk

\* C4 witness: the run is over, one written file has an entry and another
\* written file has none.
C4_Witness ==
    /\ pc = "done"
    /\ catalog # <<>>
    /\ WrittenNames \ EntryNames # {}

\* C5: at most one catalog session is open at any time, it is the session of
\* the running persist, and none is open once the persist has returned or
\* _execute has returned.
C5_SessionsClosed ==
    /\ openSessions \in {0, 1}
    /\ openSessions = 1 => (wpc # "idle" /\ session = "open")
    /\ wpc = "idle" => (openSessions = 0 /\ session # "open")
    /\ pc = "done" => openSessions = 0

\* C5 witness: a run that opened two sessions and ended on a failed upload.
C5_Witness ==
    /\ pc = "done"
    /\ Len(SelectSeq(log, LAMBDA e : e[1] = "connect" /\ e[3])) = 2
    /\ \E i \in 1..Len(log) : log[i][1] = "upload" /\ ~log[i][3]

\* C6: between persists, the upload calls are, in order, exactly the
\* committed entries of storage type S3, each with the entry's path: one
\* upload per committed S3 entry, none for anything else.
C6_UploadPerRemoteEntry ==
    wpc = "idle" =>
        LET remote == SelectSeq(catalog, LAMBDA r : r.storage_type = "S3")
        IN  /\ Len(uploads) = Len(remote)
            /\ \A i \in 1..Len(uploads) : uploads[i].path = remote[i].path

\* C6, with the failures the claim leaves out: between persists, the upload
\* calls are, in order, the committed entries of storage type S3 with the
\* entry's path, except that the last such entry has no upload call when a
\* step between its commit and the upload call raised in its persist (the
\* flush or the read of the storage type, or building the S3 helper), which
\* ends the run with that error; nothing else is uploaded.
C6_UploadUnlessStepBeforeFails ==
    wpc = "idle" =>
        LET remote == SelectSeq(catalog, LAMBDA r : r.storage_type = "S3")
            unbuilt == CountIn(log, LAMBDA e : e[1] = "s3helper")
            unflushed == CountIn(log, LAMBDA e : e[1] = "flush")
            missed == IF unflushed = 1 /\ catalog[Len(catalog)].storage_type = "S3"
                      THEN 1 ELSE unbuilt
        IN  /\ unbuilt + unflushed <= 1
            /\ Len(uploads) + missed = Len(remote)
            /\ \A i \in 1..Len(uploads) : uploads[i].path = remote[i].path
            /\ unbuilt = 1 =>
                   /\ pc \in {"ret", "done"}
                   /\ saveResult = SaveError(Causes.s3helper)
            /\ unflushed = 1 =>
                   /\ pc \in {"ret", "done"}
                   /\ saveResult = SaveError(Causes.flush)

\* C6 witness: one S3 entry was committed and uploaded, one local entry was
\* committed, and one commit failed.
C6_Witness ==
    /\ wpc = "idle"
    /\ Len(uploads) = 1
    /\ Len(catalog) = 2
    /\ \E i \in 1..Len(log) : log[i][1] = "commit" /\ ~log[i][3]

\* C7: the file handle passed to every upload call was open when passed.
C7_UploadHandleOpen ==
    \A i \in 1..Len(uploads) : uploads[i].handle = "open"

\* C8: when _execute returns an error, every file the earlier persists wrote
\* is on disk (with its content, unless the failing persist has the same
\* file) and every entry the earlier persists committed is in the catalog.
C8_EarlierPersistsKept ==
    (pc = "done" /\ StartsWith(result, ErrorPrefix)) =>
        /\ \A n \in EarlierWritten :
            /\ PathOf(n) \in DOMAIN disk
            /\ PathOf(n) # PathOf(argName) => disk[PathOf(n)] = Encode(LastCode(n))
        /\ Len(catalog) >= Len(EarlierCommitted)
        /\ \A i \in 1..Len(EarlierCommitted) :
            catalog[i].file_name = EarlierCommitted[i][2]

\* C8 witness: the persist of README.md failed after an earlier persist
\* wrote a file and committed its entry.
C8_Witness ==
    /\ pc = "done"
    /\ StartsWith(result, ErrorPrefix)
    /\ inReadme
    /\ EarlierWritten # {}
    /\ EarlierCommitted # <<>>

\* C9: the persists started are the records with a non-empty file name, in
\* response order, then README.md: always a prefix of that sequence, all of
\* it on success; and a persist starts only first or right after the
\* successful return of the previous one.
C9_PersistOrder ==
    LET named == SelectSeq(AllRecords(response, 1), LAMBDA r : r.file_name # <<>>)
        expected == [i \in 1..Len(named) |-> named[i].file_name] \o <<ReadmeName>>
    IN  /\ IsPrefix(CallNames, expected)
        /\ (pc = "done" /\ result = SuccessMessage) => CallNames = expected
        /\ \A i \in 1..Len(log) :
            log[i][1] = "call" =>
                \/ i = 1
                \/ log[i - 1][1] = "return" /\ log[i - 1][3]

\* C9 witness: a successful run over a response with a named record and a
\* record whose file name is empty after sanitizing.
C9_Witness ==
    /\ pc = "done"
    /\ result = SuccessMessage
    /\ Len(records) = 2
    /\ \E i \in 1..Len(records) : records[i].file_name = <<>>
    /\ CallNames = <<records[1].file_name, ReadmeName>>

\* C10: for a response written from N filename+fence blocks, the parser
\* yields N records, the i-th with the content of the i-th block and its
\* file name without the characters < > " | ? *.
C10_RecordPerBlock ==
    pc = "parsed" =>
        /\ Len(records) = Len(blocks)
        /\ \A i \in 1..Len(records) :
            i <= Len(blocks) =>
                /\ records[i].code = Between(blocks[i])
                /\ records[i].file_name =
                       SelectSeq(blocks[i].name,
                                 LAMBDA c : c \notin {"<", ">", "\"", "|", "?", "*"})

\* C10, the case the parser gets right: when every block has content, there
\* is one record per block, with the block's content and sanitized name.
C10_RecordPerNonEmptyBlock ==
    (\A i \in 1..Len(blocks) : Between(blocks[i]) # <<>>) => C10_RecordPerBlock

\* C11: after a successful run README.md holds the text before the first
\* fence, the file of every block holds the content of that block (of the
\* last block written to the file, when several are), and for
\* the response "Intro text\nmain.py\n(fence)python\nprint(1)\n(fence)\n"
\* main.py holds "print(1)\n" and README.md holds "Intro text\n".
C11_ReadmeAndContents ==
    (pc = "done" /\ result = SuccessMessage) =>
        /\ PathOf(ReadmeName) \in DOMAIN disk
        /\ disk[PathOf(ReadmeName)] = Encode(SplitFirst(response))
        /\ \A i \in 1..Len(blocks) :
            (/\ Sanitize(blocks[i].name) \notin {<<>>, ReadmeName}
             /\ \A j \in (i + 1)..Len(blocks) :
                    PathOf(Sanitize(blocks[j].name)) # PathOf(Sanitize(blocks[i].name))) =>
                /\ PathOf(Sanitize(blocks[i].name)) \in DOMAIN disk
                /\ disk[PathOf(Sanitize(blocks[i].name))] = Encode(Between(blocks[i]))
        /\ blocks = <<ExampleBlock>> =>
            /\ disk[PathOf(ExampleBlock.name)] = Encode(Between(ExampleBlock))
            /\ disk[PathOf(ReadmeName)] = Encode(ExamplePre)

\* the model has returned a response
HasResponse == pc # "start" /\ ~(pc = "done" /\ log = <<>>)

\* the response holds no fence delimiter
NoFence == \A k \in 1..Len(response) : ~HasAt(response, k, Fence)

\* C12: for a response without a fence there is no file record, the only
\* persist is README.md with the whole response as content, and the run
\* returns the success message unless a step of that persist failed.
C12_FencelessIsReadme ==
    (HasResponse /\ NoFence) =>
        /\ records = <<>>
        /\ IsPrefix(CallNames, <<ReadmeName>>)
        /\ CallNames # <<>> => argContent = response
        /\ pc = "done" =>
            /\ CallNames = <<ReadmeName>>
            /\ (\A i \in 1..Len(log) : log[i][3]) =>
                /\ result = SuccessMessage
                /\ DOMAIN disk = {PathOf(ReadmeName)}
                /\ disk[PathOf(ReadmeName)] = Encode(response)
            /\ result # SuccessMessage => \E i \in 1..Len(log) : ~log[i][3]

\* C12 witness: a successful run on a response that is plain text.
C12_Witness ==
    /\ pc = "done"
    /\ result = SuccessMessage
    /\ response = PlainText
    /\ NoFence

\* the records produced so far whose file name is not empty
NamedRecords == SelectSeq(records, LAMBDA r : r.file_name # <<>>)

\* C13: nothing is ever attempted for an empty file name (no call, session,
\* write, registration, commit or upload), an empty-named record causes no
\* error, and the other records and README.md are persisted in order.
C13_EmptyNameDropped ==
    /\ \A i \in 1..Len(log) : log[i][2] # <<>>
    /\ Len(CallNames) <= Len(NamedRecords) + 1
    /\ (pc = "done" /\ \A i \in 1..Len(log) : log[i][3]) =>
        \/ log = <<>> /\ records = <<>> /\ result = GenerateError(Causes.model)
        \/ /\ result = SuccessMessage
           /\ CallNames = [i \in 1..Len(NamedRecords) |-> NamedRecords[i].file_name]
                              \o <<ReadmeName>>

\* C13 witness: a successful run in which the first record had an empty
\* file name and the second record and README.md were persisted.
C13_Witness ==
    /\ pc = "done"
    /\ result = SuccessMessage
    /\ Len(records) = 2
    /\ records[1].file_name = <<>>
    /\ CallNames = <<records[2].file_name, ReadmeName>>
    /\ Len(EventsOf("connect")) = 2

(***************************************************************************)
(* The path resolver alone: lines 65-72 applied to the file name the       *)
(* parser produces for one block, for every configured root.               *)
(***************************************************************************)
\* absent, or any text of separators and letters (the empty text included)
PathRoots == {<<>>} \cup {<<r>> : r \in SeqsUpTo({"/", "o"}, MaxRootLen)}

\* file names a response can carry: plain, with a directory, starting with
\* a separator, with . and .. segments, with a forbidden character
PathNames == {<<"a">>, <<"d", "/", "a">>, <<"/", "a">>, <<".", "/", "a">>,
              <<".", ".", "/", "a">>, <<"d", "/", ".", ".", "/", "a">>,
              <<"?", "a">>}

PathInit ==
    /\ rootDir \in PathRoots
    /\ \E n \in PathNames :
        /\ blocks = <<[name |-> n, tag |-> <<"p">>, content |-> <<"x">>,
                      tight |-> FALSE]>>
        /\ response = Render(<<>>, blocks)
    /\ pc = "path"
    /\ scanPos = 1
    /\ records = <<>>
    /\ inReadme = FALSE
    /\ result = <<>>
    /\ wpc = "idle"
    /\ argName = <<>>
    /\ argContent = <<>>
    /\ session = "unbound"
    /\ finalPath = <<>>
    /\ codeFile = "unbound"
    /\ resource = <<>>
    /\ exc = <<>>
    /\ saveResult = <<>>
    /\ disk = <<>>
    /\ catalog = <<>>
    /\ uploads = <<>>
    /\ openSessions = 0
    /\ log = <<>>

\* lines 153-162: the file name of the match, passed to write_codes_to_file
PathParse ==
    /\ pc = "path"
    /\ FindMatch(response, scanPos) # <<>>
    /\ IsNamed(RecordOf(FindMatch(response, scanPos)[1]).file_name)
    /\ scanPos' = FindMatch(response, scanPos)[1].end
    /\ records' = Append(records, RecordOf(FindMatch(response, scanPos)[1]))
    /\ argName' = RecordOf(FindMatch(response, scanPos)[1]).file_name
    /\ argContent' = RecordOf(FindMatch(response, scanPos)[1]).code
    /\ pc' = "named"
    /\ UNCHANGED <<response, blocks, inReadme, result, wpc, session, finalPath,
                   codeFile, resource, exc, saveResult, worldVars, log>>

\* lines 65-72: the destination that line 74 opens for writing
PathResolve ==
    /\ pc = "named"
    /\ finalPath' = ResolvePath(rootDir, argName)
    /\ pc' = "resolved"
    /\ UNCHANGED <<response, scanPos, records, blocks, inReadme, result, wpc,
                   argName, argContent, session, codeFile, resource, exc,
                   saveResult, worldVars, log>>

PathNext == PathParse \/ PathResolve

PathSpec == PathInit /\ [][PathNext]_vars

\* the absolute form of the configured root, or the working directory
AbsoluteRoot ==
    IF rootDir = <<>> THEN Cwd
    ELSE IF Len(rootDir[1]) > 0 /\ rootDir[1][1] = "/" THEN rootDir[1]
         ELSE Cwd \o <<"/">> \o rootDir[1]

\* a text without its trailing separators
RECURSIVE WithoutTrailingSeparators(_)
WithoutTrailingSeparators(p) ==
    IF p # <<>> /\ p[Len(p)] = "/" THEN WithoutTrailingSeparators(SubSeq(p, 1, Len(p) - 1))
    ELSE p

\* C14: the destination is the absolute form of the root (the working
\* directory when no root is configured), ending with exactly one
\* separator, followed by the file name.
C14_OneSeparator ==
    pc = "resolved" =>
        finalPath = WithoutTrailingSeparators(AbsoluteRoot) \o <<"/">> \o argName

\* C14, the case the resolver gets right: a root that does not end with two
\* separators.
C14_OneSeparatorUnlessDoubled ==
    (pc = "resolved" /\ ~(\E k \in 1..Len(AbsoluteRoot) - 1 :
                             k = Len(AbsoluteRoot) - 1 /\ HasAt(AbsoluteRoot, k, <<"/", "/">>)))
        => C14_OneSeparator

\* C20: the destination opened for writing denotes a location under the
\* output root (under the working directory when no root is configured).
C20_UnderRoot ==
    pc = "resolved" =>
        /\ IsPrefix(Location(AbsoluteRoot), Location(finalPath))
        /\ Location(finalPath) # Location(AbsoluteRoot)

\* C20, the case that holds: a file name without a ".." segment.
C20_UnderRootWithoutDotDot ==
    (pc = "resolved" /\ \A i \in 1..Len(Segments(argName)) :
                            Segments(argName)[i] # <<".", ".">>)
        => C20_UnderRoot

\* C15 as stated: no file name is opened for writing twice and no two
\* committed entries carry the same file name.
C15_WrittenOnce ==
    /\ \A i, j \in 1..Len(log) :
        (log[i][1] = "open_w" /\ log[j][1] = "open_w" /\ log[i][2] = log[j][2]) => i = j
    /\ \A i, j \in 1..Len(catalog) :
        catalog[i].file_name = catalog[j].file_name => i = j

\* C15 as amended: there is one call of write_codes_to_file per record with
\* a non-empty name, plus one for README.md, and each call opens its
\* destination for writing at most once and commits at most one entry.
C15_WrittenOncePerCall ==
    \A n \in {log[i][2] : i \in 1..Len(log)} :
        LET calls == CountIn(log, LAMBDA e : e[1] = "call" /\ e[2] = n)
        IN  /\ calls = CountIn(records, LAMBDA r : r.file_name = n)
                         + (IF n = ReadmeName /\ inReadme THEN 1 ELSE 0)
            /\ CountIn(log, LAMBDA e : e[1] = "open_w" /\ e[2] = n) <= calls
            /\ CountIn(catalog, LAMBDA r : r.file_name = n) <= calls

\* C15 witness: a successful run that committed two entries of the same
\* file name.
C15_Witness ==
    /\ pc = "done"
    /\ result = SuccessMessage
    /\ \E i, j \in 1..Len(catalog) :
        i < j /\ catalog[i].file_name = catalog[j].file_name

\* the external calls of the latest call of write_codes_to_file
CurrentLog == IF LastCall = 0 THEN <<>> ELSE SubSeq(log, LastCall + 1, Len(log))

\* the registration of the latest call returned no entry
RegisteredNone ==
    /\ resource = <<>>
    /\ \E i \in 1..Len(CurrentLog) : CurrentLog[i][1] = "register" /\ CurrentLog[i][3]

\* C16: when registration returned no entry, the call goes straight to its
\* return: no commit and no upload is made, the catalog holds only the
\* entries committed by earlier calls, the session is closed, the call
\* returns "Codes saved successfully", and _execute goes on with the loop
\* (or returns the success message after README.md).
C16_NoEntryNoCommit ==
    RegisteredNone =>
        /\ wpc \in {"close", "idle"}
        /\ \A i \in 1..Len(CurrentLog) : CurrentLog[i][1] \notin {"commit", "s3helper", "upload"}
        /\ Len(catalog) = CountIn(EarlierLog, LAMBDA e : e[1] = "commit" /\ e[3])
        /\ Len(uploads) = CountIn(EarlierLog, LAMBDA e : e[1] = "upload")
        /\ wpc = "idle" =>
            /\ saveResult = SavedMessage
            /\ session = "closed"
            /\ openSessions = 0
            /\ pc \in {"ret", "loop", "readme", "done"}
            /\ pc = "done" => result = SuccessMessage

\* C16 witness: the first of two records was registered without an entry
\* and the loop is about to take the second.
C16_Witness ==
    /\ RegisteredNone
    /\ pc = "loop"
    /\ Len(records) = 1
    /\ Len(blocks) = 2
    /\ FindMatch(response, scanPos) # <<>>

\* the commit of the latest call of write_codes_to_file failed
CommitFailed ==
    \E i \in 1..Len(CurrentLog) : CurrentLog[i][1] = "commit" /\ ~CurrentLog[i][3]

\* C17: when the commit failed, the file written by that call holds its new
\* content, the catalog holds no entry of that call, no upload is made, the
\* session is closed, and the call returns "Error saving codes to file: "
\* followed by the cause, which _execute returns.
C17_CommitFailureKeepsFile ==
    CommitFailed =>
        /\ wpc \in {"except", "idle"}
        /\ FileOf(finalPath) \in DOMAIN disk
        /\ disk[FileOf(finalPath)] = Encode(argContent)
        /\ Len(catalog) = CountIn(log, LAMBDA e : e[1] = "commit" /\ e[3])
        /\ CountIn(catalog, LAMBDA r : r.file_name = argName)
               = CountIn(EarlierLog, LAMBDA e : e[1] = "commit" /\ e[3] /\ e[2] = argName)
        /\ \A i \in 1..Len(CurrentLog) :
               CurrentLog[i][1] \notin {"s3helper", "upload"}
        /\ wpc = "idle" =>
            /\ session = "closed"
            /\ openSessions = 0
            /\ saveResult = SaveErrorPrefix \o Causes.commit
            /\ pc \in {"ret", "done"}
            /\ pc = "done" => result = saveResult

\* C17 witness: _execute has returned after the commit of the second
\* persist failed; the entry of the first persist is in the catalog.
C17_Witness ==
    /\ CommitFailed
    /\ pc = "done"
    /\ Len(catalog) = 1
    /\ Len(CallNames) = 2

\* C18: _execute returns a message prefixed "Error generating codes: " when
\* the model invocation fails, and only for failures outside a persist: with
\* that result no call of write_codes_to_file was made, no session opened,
\* no file written, no entry committed and nothing uploaded.
C18_GenerateErrorOutsidePersist ==
    /\ (pc = "done" /\ log = <<>>) => result = GenerateErrorPrefix \o Causes.model
    /\ (pc = "done" /\ StartsWith(result, GenerateErrorPrefix)) =>
        /\ log = <<>>
        /\ DOMAIN disk = {}
        /\ catalog = <<>>
        /\ uploads = <<>>
        /\ openSessions = 0

(***************************************************************************)
(* The pipeline when every external call returns or raises: _execute is    *)
(* synchronous and single-threaded, so a step that can be taken is taken.  *)
(***************************************************************************)
LiveSpec == Spec /\ WF_vars(Next)

\* the run made no failing call and its last persist, README.md, returned
EndedAfterReadme ==
    /\ log # <<>>
    /\ \A i \in 1..Len(log) : log[i][3]
    /\ log[Len(log)][1] = "return"
    /\ CallNames[Len(CallNames)] = ReadmeName

\* the first failing call belongs to the latest persist, and the only thing
\* after it is that persist's return (or the exception leaving it)
EndedAtFirstFailure ==
    \E i \in 1..Len(log) :
        /\ ~log[i][3]
        /\ \A j \in 1..(i - 1) : log[j][3]
        /\ i > LastCall
        /\ Len(log) = i + 1
        /\ log[i + 1][1] \in {"return", "escape"}

\* the model invocation failed before any persist
EndedAtModelFailure ==
    /\ log = <<>>
    /\ result = GenerateErrorPrefix \o Causes.model

\* C19 as stated, its last part: a run that has ended has ended after the
\* README.md persist or at the first failing persist.
C19_EndsAtPersist ==
    pc = "done" => (EndedAfterReadme \/ EndedAtFirstFailure)

\* C19 as amended: every run ends with a result; there are never more
\* persists than matches of the response plus one; and a run that has ended
\* has ended after the README.md persist, at the first failing persist, or
\* at the failure of the model invocation, before any persist.
C19_Terminates ==
    /\ <>(pc = "done" /\ result # <<>>)
    /\ [](Len(CallNames) <= Len(AllRecords(response, 1)) + 1)
    /\ [](pc = "done" =>
            (EndedAfterReadme \/ EndedAtFirstFailure \/ EndedAtModelFailure))

\* C19 witness: a run over two matches that has ended after three persists.
C19_Witness ==
    /\ pc = "done"
    /\ Len(AllRecords(response, 1)) = 2
    /\ Len(CallNames) = 3
    /\ EndedAfterReadme

====
